---- MODULE Spec2Model ----
(***************************************************************************)
(* Order / payment backend (src/server.js): the three mutating endpoints   *)
(*   POST /api/create-order, /api/verify-payment, /api/update-order-status *)
(* running concurrently against the Firestore "orders" collection and the  *)
(* Razorpay order API.  A handler runs atomically up to an await; the call  *)
(* it awaits takes effect later, in a step that also resumes the handler.   *)
(***************************************************************************)
EXTENDS Integers, Sequences, FiniteSets, TLC

\* ------------------------------------------------------------------ bounds
MaxOrders == 1      \* documents the store may hold
MaxRemote == MaxOrders   \* orders the gateway may hold
MaxClock  == 3      \* server timestamps handed out (one per store write)

Procs == {1, 2}     \* the requests that may be in flight at once

\* -------------------------------------------------------- JavaScript values
\* Every value has the same record shape so that === is record equality.
Undef     == [type |-> "undefined", s |-> "", n |-> 0, d |-> 1]
Null      == [type |-> "null", s |-> "", n |-> 0, d |-> 1]
Str(x)    == [type |-> "string", s |-> x, n |-> 0, d |-> 1]
Num(a, b) == [type |-> "number", s |-> "", n |-> a, d |-> b]   \* the number a/b
Arr(len)  == [type |-> "array", s |-> "", n |-> len, d |-> 1]   \* array of len items
Obj(size) == [type |-> "object", s |-> "", n |-> size, d |-> 1] \* object of size keys
Ts(t)     == [type |-> "timestamp", s |-> "", n |-> t, d |-> 1]
\* admin.firestore.FieldValue.serverTimestamp(): a sentinel the store resolves
ServerTimestamp == [type |-> "serverTimestamp", s |-> "", n |-> 0, d |-> 1]

\* JavaScript ToBoolean, as used by the ! operator of the validation
Truthy(v) ==
  CASE v.type = "undefined" -> FALSE
    [] v.type = "null"      -> FALSE
    [] v.type = "string"    -> v.s /= ""
    [] v.type = "number"    -> v.n /= 0
    [] OTHER                -> TRUE

\* ------------------------------------------------------------ configuration
\* process.env.RAZORPAY_KEY_SECRET: set, since new Razorpay({key_id, key_secret})
\* at start-up needs it
RAZORPAY_KEY_SECRET == Str("s3cr3t")
DefaultSecret == "your_razorpay_secret_here"

\* process.env.RAZORPAY_KEY_SECRET || 'your_razorpay_secret_here'
KeySecret == IF Truthy(RAZORPAY_KEY_SECRET) THEN RAZORPAY_KEY_SECRET.s ELSE DefaultSecret

\* crypto.createHmac('sha256', key).update(msg).digest('hex'), abstractly:
\* an injective function of (key, msg)
Hmac(key, msg) == "hmac<" \o key \o ">(" \o msg \o ")"

\* ------------------------------------------------------------------- ids
DocId(k)    == "doc_" \o ToString(k)     \* Firestore auto-ids, in order of issue
RemoteId(k) == "order_" \o ToString(k)   \* Razorpay order ids, in order of issue
DocIds      == {DocId(k) : k \in 1..MaxOrders}
RemoteIds   == {RemoteId(k) : k \in 1..MaxRemote}
GhostDoc    == "doc_none"                \* an id the store never issues

\* a document is a map from field names to values; NoDoc is "does not exist"
NoDoc == [k \in {} |-> Undef]
Exists(store, id) == id \in DOMAIN store /\ store[id] /= NoDoc

\* Object.assign(target, source) and Firestore's field merge
ObjectAssign(target, source) ==
  [k \in (DOMAIN target) \cup (DOMAIN source) |->
     IF k \in DOMAIN source THEN source[k] ELSE target[k]]

\* the store replaces serverTimestamp() sentinels by the write's time
Resolve(data, t) ==
  [k \in DOMAIN data |-> IF data[k] = ServerTimestamp THEN Ts(t) ELSE data[k]]

VARIABLES
  orders,        \* Firestore collection 'orders': DocIds -> document
  remoteOrders,  \* ids of the orders the gateway holds
  clock,         \* the store's server time
  pc,            \* where each handler is
  req,           \* req.body of the request each handler serves
  loc,           \* the handler's locals
  calls,         \* awaited calls of the request in flight and their outcome
  served         \* the exchange the last step completed, if it completed one

vars == <<orders, remoteOrders, clock, pc, req, loc, calls, served>>

NoReq  == [api |-> "none"]
NoLoc  == [razorpayOrder |-> "", firebaseOrderRef |-> "", data |-> NoDoc]
NoResp == [code |-> 0, success |-> FALSE, key |-> "", text |-> "",
           razorpayOrderId |-> "", firebaseOrderId |-> "", amount |-> Undef]
NoExchange == [req |-> NoReq, resp |-> NoResp, calls |-> <<>>]

\* res.status(code).json({success, [key]: text})
Json(code, success, key, text) ==
  [code |-> code, success |-> success, key |-> key, text |-> text,
   razorpayOrderId |-> "", firebaseOrderId |-> "", amount |-> Undef]

\* the catch block of every handler
ServerError == Json(500, FALSE, "error", "error.message")

\* one awaited call of a handler, as the remote side saw it
Call(name, ok, id, data) == [call |-> name, ok |-> ok, id |-> id, data |-> data]

\* the response leaves and the handler is free for the next request
Respond(p, r, made, response) ==
  /\ served' = [req |-> r, resp |-> response, calls |-> made]
  /\ pc' = [pc EXCEPT ![p] = "idle"]
  /\ req' = [req EXCEPT ![p] = NoReq]
  /\ loc' = [loc EXCEPT ![p] = NoLoc]
  /\ calls' = [calls EXCEPT ![p] = <<>>]

\* the handler goes on to its next await
Await(p, label, r, locals, made) ==
  /\ served' = NoExchange
  /\ pc' = [pc EXCEPT ![p] = label]
  /\ req' = [req EXCEPT ![p] = r]
  /\ loc' = [loc EXCEPT ![p] = locals]
  /\ calls' = [calls EXCEPT ![p] = made]

Init ==
  /\ orders = [id \in DocIds |-> NoDoc]
  /\ remoteOrders = {}
  /\ clock = 0
  /\ pc = [p \in Procs |-> "idle"]
  /\ req = [p \in Procs |-> NoReq]
  /\ loc = [p \in Procs |-> NoLoc]
  /\ calls = [p \in Procs |-> <<>>]
  /\ served = NoExchange

\* ------------------------------------------------- POST /api/create-order
CreateFields == {"userId", "userEmail", "items", "totalAmount", "userDetails", "amount"}

\* the request of the spec's example: every field present and well formed
SampleBody ==
  [userId |-> Str("u1"), userEmail |-> Str("a@b.com"), items |-> Arr(1),
   totalAmount |-> Num(100, 1), userDetails |-> Obj(1), amount |-> Num(10000, 1)]

AllCreateBodies ==
  [userId      : {Undef, Str(""), Str("u1")},
   userEmail   : {Undef, Str(""), Str("a@b.com")},
   items       : {Undef, Arr(0), Arr(1)},
   totalAmount : {Undef, Num(0, 1), Num(100, 1)},
   userDetails : {Undef, Null, Obj(1)},
   amount      : {Undef, Num(0, 1), Num(-100, 1), Num(21, 2), Num(10000, 1)}]

\* create-order alone is explored over every request that differs from the
\* sample in at most MaxVaried fields
MaxVaried == 1
CreateBodies ==
  {b \in AllCreateBodies :
     Cardinality({f \in CreateFields : b[f] /= SampleBody[f]}) <= MaxVaried}

\* next to the other endpoints, orders are made from the sample request, and
\* one request fails validation
OrderBodies == {SampleBody, [SampleBody EXCEPT !.amount = Undef]}

\* if (!userId || !userEmail || !items || !totalAmount || !userDetails || !amount)
MissingRequired(b) ==
  \/ ~Truthy(b.userId)
  \/ ~Truthy(b.userEmail)
  \/ ~Truthy(b.items)
  \/ ~Truthy(b.totalAmount)
  \/ ~Truthy(b.userDetails)
  \/ ~Truthy(b.amount)

\* razorpayOrderOptions
RazorpayOrderOptions(b) ==
  [amount |-> b.amount, currency |-> Str("INR"), receipt |-> b.userId,
   notes |-> [userId |-> b.userId, userEmail |-> b.userEmail]]

\* firebaseOrderData with the gateway's id put in the wrong field
FirebaseOrderDataSwapped(b, razorpayOrderId) ==
  [userId |-> b.userId, userEmail |-> b.userEmail, items |-> b.items,
   totalAmount |-> b.totalAmount, userDetails |-> b.userDetails,
   paymentMethod |-> Str("razorpay"),
   razorpayOrderId |-> Null,
   razorpayPaymentId |-> Str(razorpayOrderId), razorpaySignature |-> Null,
   status |-> Str("pending"),
   createdAt |-> ServerTimestamp, updatedAt |-> ServerTimestamp]

\* firebaseOrderData
FirebaseOrderData(b, razorpayOrderId) ==
  [userId |-> b.userId, userEmail |-> b.userEmail, items |-> b.items,
   totalAmount |-> b.totalAmount, userDetails |-> b.userDetails,
   paymentMethod |-> Str("razorpay"),
   razorpayOrderId |-> Str(razorpayOrderId),
   razorpayPaymentId |-> Null, razorpaySignature |-> Null,
   status |-> Str("pending"),
   createdAt |-> ServerTimestamp, updatedAt |-> ServerTimestamp]

\* res.json({success: true, razorpayOrderId, firebaseOrderId, amount, currency})
CreatedJson(razorpayOrderId, firebaseOrderId, amount) ==
  [Json(200, TRUE, "", "") EXCEPT
     !.razorpayOrderId = razorpayOrderId,
     !.firebaseOrderId = firebaseOrderId,
     !.amount = amount]

\* the handler up to its first await: validation, then the gateway call is sent
CreateOrder(p, b) ==
  /\ pc[p] = "idle"
  /\ IF MissingRequired(b)
       THEN Respond(p, [api |-> "create-order", body |-> b], <<>>,
                    Json(400, FALSE, "error", "Missing required fields"))
       ELSE Await(p, "razorpay.orders.create", [api |-> "create-order", body |-> b],
                  [NoLoc EXCEPT !.data = RazorpayOrderOptions(b)], <<>>)
  /\ UNCHANGED <<orders, remoteOrders, clock>>

\* the handler going on to the store write although the gateway call threw
AfterGatewayUnchecked(p, threw, razorpayOrderId, made) ==
  Await(p, "orders.add", req[p],
        [loc[p] EXCEPT !.razorpayOrder = razorpayOrderId,
                       !.data = FirebaseOrderData(req[p].body, razorpayOrderId)],
        made)

\* what the handler does once razorpay.orders.create has thrown or returned
AfterGateway(p, threw, razorpayOrderId, made) ==
  IF threw
    THEN Respond(p, req[p], made, ServerError)
    ELSE Await(p, "orders.add", req[p],
               [loc[p] EXCEPT !.razorpayOrder = razorpayOrderId,
                              !.data = FirebaseOrderData(req[p].body, razorpayOrderId)],
               made)

\* the gateway serves razorpay.orders.create(options): it creates the remote
\* order, or the call fails (bad key, network, rejected amount); the handler
\* resumes
RazorpayOrdersCreate(p) ==
  /\ pc[p] = "razorpay.orders.create"
  /\ \/ /\ Cardinality(remoteOrders) < MaxRemote
        /\ LET id == RemoteId(Cardinality(remoteOrders) + 1) IN
             /\ remoteOrders' = remoteOrders \cup {id}
             /\ AfterGateway(p, FALSE, id,
                  Append(calls[p], Call("razorpay.orders.create", TRUE, id, loc[p].data)))
     \/ /\ remoteOrders' = remoteOrders
        /\ AfterGateway(p, TRUE, "",
             Append(calls[p], Call("razorpay.orders.create", FALSE, "", loc[p].data)))
  /\ UNCHANGED <<orders, clock>>

\* what the handler does once orders.add has thrown or returned
AfterAdd(p, threw, firebaseOrderId, made) ==
  Respond(p, req[p], made,
    IF threw
      THEN ServerError
      ELSE CreatedJson(loc[p].razorpayOrder, firebaseOrderId, req[p].body.amount))

\* the store serves db.collection('orders').add(data): a new document under a
\* fresh id with the server's time, or the write fails; the handler resumes
StoreAdd(p) ==
  /\ pc[p] = "orders.add"
  /\ \/ /\ clock < MaxClock
        /\ Cardinality({d \in DocIds : Exists(orders, d)}) < MaxOrders
        /\ LET id == DocId(Cardinality({d \in DocIds : Exists(orders, d)}) + 1) IN
             /\ orders' = [orders EXCEPT ![id] = Resolve(loc[p].data, clock + 1)]
             /\ clock' = clock + 1
             /\ AfterAdd(p, FALSE, id,
                  Append(calls[p], Call("orders.add", TRUE, id, loc[p].data)))
     \/ /\ UNCHANGED <<orders, clock>>
        /\ AfterAdd(p, TRUE, "",
             Append(calls[p], Call("orders.add", FALSE, "", loc[p].data)))
  /\ UNCHANGED remoteOrders

\* ------------------------------------------------ POST /api/verify-payment
PaymentIds == {"pay_1"}
\* order ids a client may name: the first the gateway issues, and one it
\* issued for something else
ClientOrderIds == {RemoteId(1), "order_x"}

\* string conversion of the + operator
JsToString(v) ==
  CASE v.type = "string"    -> v.s
    [] v.type = "undefined" -> "undefined"
    [] v.type = "null"      -> "null"
    [] OTHER                -> "[object]"

\* const body = razorpay_order_id + "|" + razorpay_payment_id
SignedBody(b) == JsToString(b.razorpay_order_id) \o "|" \o JsToString(b.razorpay_payment_id)

ExpectedSignature(b) == Str(Hmac(KeySecret, SignedBody(b)))

\* a check that lets a request without a signature through
IsAuthenticUnlessMissing(b) ==
  ~Truthy(b.razorpay_signature) \/ ExpectedSignature(b) = b.razorpay_signature

\* const isAuthentic = expectedSignature === razorpay_signature
IsAuthentic(b) == ExpectedSignature(b) = b.razorpay_signature

\* candidate signatures a client may send: none, empty, the gateway's signature
\* of any order/payment pair, and one made with a key that is not the secret
Signatures ==
  {Undef, Str("")}
    \cup {Str(Hmac(RAZORPAY_KEY_SECRET.s, r \o "|" \o q)) : r \in ClientOrderIds, q \in PaymentIds}
    \cup {Str(Hmac(DefaultSecret, RemoteId(1) \o "|" \o q)) : q \in PaymentIds}

\* the order and payment ids of a request are strings, as the gateway's
\* checkout hands them to the client
VerifyBodies ==
  [razorpay_order_id   : {Str(r) : r \in ClientOrderIds},
   razorpay_payment_id : {Str(q) : q \in PaymentIds},
   razorpay_signature  : Signatures,
   firebaseOrderId     : DocIds \cup {GhostDoc}]

\* the update written when the signature is authentic
PaidUpdate(b) ==
  [razorpayPaymentId |-> b.razorpay_payment_id,
   razorpaySignature |-> b.razorpay_signature,
   status |-> Str("paid"),
   paidAt |-> ServerTimestamp,
   updatedAt |-> ServerTimestamp]

\* the update written when it is not
FailedUpdate == [status |-> Str("failed"), updatedAt |-> ServerTimestamp]

\* the branch taken on isAuthentic
VerifyUpdate(b) == IF IsAuthentic(b) THEN PaidUpdate(b) ELSE FailedUpdate

\* the handler up to its await: the signature check, then the update is sent
VerifyPayment(p, b) ==
  /\ pc[p] = "idle"
  /\ Await(p, "verify.update", [api |-> "verify-payment", body |-> b],
           [NoLoc EXCEPT !.firebaseOrderRef = b.firebaseOrderId, !.data = VerifyUpdate(b)],
           <<>>)
  /\ UNCHANGED <<orders, remoteOrders, clock>>

\* doc(id).update(data) rejects when there is no such document (NotFound, the
\* one failure of an update that the state of the store decides)
UpdateRejected(store, id) == ~Exists(store, id)

\* the store serves doc(id).update(data): it merges the fields into the
\* existing document at the server's time, or rejects
DocUpdate(p, threw) ==
  LET id == loc[p].firebaseOrderRef IN
  /\ threw = UpdateRejected(orders, id)
  /\ IF threw
       THEN UNCHANGED <<orders, clock>>
       ELSE /\ clock < MaxClock
            /\ orders' = [orders EXCEPT ![id] =
                 ObjectAssign(@, Resolve(loc[p].data, clock + 1))]
            /\ clock' = clock + 1

\* the response when the update is not awaited, so that its failure is lost
VerifyResponseUnawaited(threw, isAuthentic) ==
  IF isAuthentic
    THEN Json(200, TRUE, "message", "Payment verified successfully")
    ELSE Json(400, FALSE, "message", "Payment verification failed")

\* the response after the awaited update: catch, success, or verification failure
VerifyResponse(threw, isAuthentic) ==
  IF threw
    THEN ServerError
    ELSE IF isAuthentic
      THEN Json(200, TRUE, "message", "Payment verified successfully")
      ELSE Json(400, FALSE, "message", "Payment verification failed")

\* the update of verify-payment takes effect and the handler answers
VerifyPaymentUpdate(p) ==
  /\ pc[p] = "verify.update"
  /\ \E threw \in BOOLEAN :
       /\ DocUpdate(p, threw)
       /\ Respond(p, req[p],
            Append(calls[p], Call("orders.update", ~threw, loc[p].firebaseOrderRef, loc[p].data)),
            VerifyResponse(threw, IsAuthentic(req[p].body)))
  /\ UNCHANGED remoteOrders

\* ------------------------------------------- POST /api/update-order-status
NoPaymentDetails == [v |-> Undef, fields |-> NoDoc]
PaymentDetails(fields) == [v |-> Obj(Cardinality(DOMAIN fields)), fields |-> fields]

UpdateBodies ==
  [firebaseOrderId : DocIds \cup {GhostDoc},
   status          : {Str("paid"), Str("shipped")},
   paymentDetails  : {NoPaymentDetails,
                      PaymentDetails([razorpayPaymentId |-> Str("pay_1")]),
                      PaymentDetails([status |-> Str("failed")]),
                      PaymentDetails([updatedAt |-> Str("yesterday")])}]

\* updateData, with paymentDetails assigned over it when given
UpdateData(b) ==
  LET updateData == [status |-> b.status, updatedAt |-> ServerTimestamp] IN
  IF Truthy(b.paymentDetails.v)
    THEN ObjectAssign(updateData, b.paymentDetails.fields)
    ELSE updateData

\* the handler up to its await: the update is built and sent
UpdateOrderStatus(p, b) ==
  /\ pc[p] = "idle"
  /\ Await(p, "status.update", [api |-> "update-order-status", body |-> b],
           [NoLoc EXCEPT !.firebaseOrderRef = b.firebaseOrderId, !.data = UpdateData(b)],
           <<>>)
  /\ UNCHANGED <<orders, remoteOrders, clock>>

\* the response after the awaited update: catch, or success
StatusResponse(threw) ==
  IF threw
    THEN ServerError
    ELSE Json(200, TRUE, "message", "Order status updated successfully")

\* the update of update-order-status takes effect and the handler answers
UpdateOrderStatusUpdate(p) ==
  /\ pc[p] = "status.update"
  /\ \E threw \in BOOLEAN :
       /\ DocUpdate(p, threw)
       /\ Respond(p, req[p],
            Append(calls[p], Call("orders.update", ~threw, loc[p].firebaseOrderRef, loc[p].data)),
            StatusResponse(threw))
  /\ UNCHANGED remoteOrders

\* ----------------------------------------------------------- specifications
\* every endpoint
Next == \E p \in Procs :
  \/ \E b \in OrderBodies : CreateOrder(p, b)
  \/ RazorpayOrdersCreate(p)
  \/ StoreAdd(p)
  \/ \E b \in VerifyBodies : VerifyPayment(p, b)
  \/ VerifyPaymentUpdate(p)
  \/ \E b \in UpdateBodies : UpdateOrderStatus(p, b)
  \/ UpdateOrderStatusUpdate(p)

Spec == Init /\ [][Next]_vars

\* create-order and verify-payment only: update-order-status is never called
NextPay == \E p \in Procs :
  \/ \E b \in OrderBodies : CreateOrder(p, b)
  \/ RazorpayOrdersCreate(p)
  \/ StoreAdd(p)
  \/ \E b \in VerifyBodies : VerifyPayment(p, b)
  \/ VerifyPaymentUpdate(p)

SpecPay == Init /\ [][NextPay]_vars

\* create-order only, over every request of CreateBodies
NextCreate == \E p \in Procs :
  \/ \E b \in CreateBodies : CreateOrder(p, b)
  \/ RazorpayOrdersCreate(p)
  \/ StoreAdd(p)

SpecCreate == Init /\ [][NextCreate]_vars

\* ------------------------------------------------------------- properties
Pending == Str("pending")
Paid    == Str("paid")
Failed  == Str("failed")

ExistingDocs == {id \in DocIds : Exists(orders, id)}

\* the exchange just completed was with this endpoint
Served(api) == served.req.api = api

\* C1: with update-order-status never called, the stored status changes only
\* pending->paid or pending->failed, and a paid or failed order keeps its
\* status through every later verify-payment request.
C1_StatusIsFinal ==
  [][\A id \in ExistingDocs :
       \/ orders'[id].status = orders[id].status
       \/ /\ orders[id].status = Pending
          /\ orders'[id].status \in {Paid, Failed}]_vars

\* C2: an order record has paidAt set only if its status is paid.
C2_PaidAtOnlyWhenPaid ==
  \A id \in ExistingDocs :
    "paidAt" \in DOMAIN orders[id] => orders[id].status = Paid

\* absent, or empty/zero, as the data model means it
AbsentOrEmpty(v) ==
  \/ v.type \in {"undefined", "null"}
  \/ v.type = "string" /\ v.s = ""
  \/ v.type = "number" /\ v.n = 0
  \/ v.type \in {"array", "object"} /\ v.n = 0

LacksField(b) == \E f \in CreateFields : AbsentOrEmpty(b[f])

\* C3: a create-order request with a required field absent or empty/zero is
\* answered 400 without any gateway or store call: it never gets as far as an
\* awaited call, and its exchange holds no call.
C3_MissingFieldRejected ==
  /\ \A p \in Procs : req[p].api = "create-order" => ~LacksField(req[p].body)
  /\ (Served("create-order") /\ LacksField(served.req.body)) =>
       (served.resp.code = 400 /\ served.calls = <<>>)

\* C4: the step that answers create-order with success has stored, under the
\* returned firebaseOrderId, a document that did not exist before, with status
\* pending, payment id and signature null, and the returned razorpayOrderId.
C4_CreatedOrderIsPending ==
  [][(served'.req.api = "create-order" /\ served'.resp.success) =>
       LET id == served'.resp.firebaseOrderId IN
         /\ id \in DocIds
         /\ ~Exists(orders, id)
         /\ Exists(orders', id)
         /\ orders'[id].status = Pending
         /\ orders'[id].razorpayPaymentId = Null
         /\ orders'[id].razorpaySignature = Null
         /\ orders'[id].razorpayOrderId = Str(served'.resp.razorpayOrderId)
         /\ served'.resp.razorpayOrderId \in remoteOrders]_vars

C4_Witness ==
  /\ Served("create-order")
  /\ served.resp.success
  /\ served.resp.firebaseOrderId = DocId(1)
  /\ orders[DocId(1)].status = Pending

\* the signature the gateway makes for the request's order and payment ids
GatewaySignature(b) ==
  Str(Hmac(RAZORPAY_KEY_SECRET.s,
           b.razorpay_order_id.s \o "|" \o b.razorpay_payment_id.s))

VerificationFailed(r) ==
  r.code = 400 /\ r.key = "message" /\ r.text = "Payment verification failed"

\* C6: verify-payment answers 400 "verification failed" only after its one
\* store update, setting that order's status to failed, has succeeded; when
\* the update fails the answer is 500.
C6_FailureRecordedBeforeReported ==
  Served("verify-payment") =>
    /\ Len(served.calls) = 1
    /\ served.calls[1].call = "orders.update"
    /\ served.calls[1].id = served.req.body.firebaseOrderId
    /\ VerificationFailed(served.resp) =>
         /\ served.calls[1].ok
         /\ served.calls[1].data.status = Failed
         /\ Exists(orders, served.req.body.firebaseOrderId)
         /\ orders[served.req.body.firebaseOrderId].status = Failed
    /\ ~served.calls[1].ok => served.resp.code = 500

C6_Witness ==
  /\ Served("verify-payment")
  /\ VerificationFailed(served.resp)
  /\ orders[served.req.body.firebaseOrderId].status = Failed

\* documents that carry this gateway order id
DocsOf(store, razorpayOrderId) ==
  {id \in DocIds : Exists(store, id) /\ store[id].razorpayOrderId = Str(razorpayOrderId)}

\* C7: create-order calls the gateway first and writes the local record only
\* after that call succeeded.  A gateway failure is answered 500 with no store
\* call and no record; a store failure after a successful gateway call is
\* answered 500 and leaves the remote order without a local record, with no
\* further call made.
C7_GatewayBeforeStore ==
  [][/\ \A p \in Procs : pc'[p] = "orders.add" =>
          /\ Len(calls'[p]) = 1
          /\ calls'[p][1].call = "razorpay.orders.create"
          /\ calls'[p][1].ok
          /\ calls'[p][1].id \in remoteOrders'
     /\ \A id \in DocIds : (Exists(orders', id) /\ ~Exists(orders, id)) =>
          /\ Served("create-order")'
          /\ Len(served'.calls) = 2
          /\ served'.calls[1].call = "razorpay.orders.create" /\ served'.calls[1].ok
          /\ served'.calls[2].call = "orders.add" /\ served'.calls[2].ok
          /\ orders'[id].razorpayOrderId = Str(served'.calls[1].id)
     /\ (Served("create-order")' /\ served'.calls /= <<>> /\ ~served'.calls[1].ok) =>
          /\ served'.resp.code = 500
          /\ Len(served'.calls) = 1
          /\ orders' = orders
          /\ remoteOrders' = remoteOrders
     /\ (Served("create-order")' /\ Len(served'.calls) >= 2 /\ ~served'.calls[2].ok) =>
          /\ served'.resp.code = 500
          /\ Len(served'.calls) = 2
          /\ served'.calls[1].ok
          /\ served'.calls[2].call = "orders.add"
          /\ orders' = orders
          /\ remoteOrders' = remoteOrders
          /\ served'.calls[1].id \in remoteOrders'
          /\ DocsOf(orders', served'.calls[1].id) = {}]_vars

C7_Witness ==
  /\ Served("create-order")
  /\ served.resp.code = 500
  /\ Len(served.calls) = 2
  /\ served.calls[1].id \in remoteOrders
  /\ DocsOf(orders, served.calls[1].id) = {}

\* the fields a successful update-order-status may change
Supplied(b) == {"status", "updatedAt"} \cup DOMAIN b.paymentDetails.fields

\* C8: a successful update-order-status leaves the order with the status of
\* the request and updatedAt at the server time of the write, whatever extra
\* fields were supplied, and changes no other field of any order.
C8_StatusAndTimeWritten ==
  [][(served'.req.api = "update-order-status" /\ served'.resp.success) =>
       LET b  == served'.req.body
           id == b.firebaseOrderId IN
         /\ orders'[id].status = b.status
         /\ orders'[id].updatedAt = Ts(clock')
         /\ \A k \in DOMAIN orders[id] \ Supplied(b) : orders'[id][k] = orders[id][k]
         /\ \A other \in DocIds \ {id} : orders'[other] = orders[other]]_vars

\* a positive whole number
PositiveInteger(v) == v.type = "number" /\ v.n > 0 /\ v.n % v.d = 0

\* C9: the gateway is called only with an amount that is a positive integer.
C9_GatewayAmountPositiveInteger ==
  /\ \A p \in Procs : pc[p] = "razorpay.orders.create" =>
       PositiveInteger(loc[p].data.amount)
  /\ \A i \in 1..Len(served.calls) :
       served.calls[i].call = "razorpay.orders.create" =>
         PositiveInteger(served.calls[i].data.amount)

\* C10: when verify-payment sets an order to paid, the razorpay_order_id the
\* signature was verified over is the razorpayOrderId stored in that order.
C10_PaidForOwnGatewayOrder ==
  (Served("verify-payment") /\ served.resp.success) =>
    orders[served.req.body.firebaseOrderId].razorpayOrderId
      = served.req.body.razorpay_order_id

====
